---------------------------- MODULE Spec2Model ----------------------------
(***************************************************************************)
(* State-machine model of scripts/windbg.py, the WinDBG compatibility      *)
(* layer for GEF: sxe (break on library load), tc / pc (trace / run until  *)
(* call), g (go) and r (register dump / write).                            *)
(*                                                                         *)
(* Text is modelled with TLA+ strings; a character of a string s is        *)
(* SubSeq(s, i, i).  A 64-bit register value is a tuple of 16 nibbles,     *)
(* most significant first.                                                 *)
(***************************************************************************)
EXTENDS Integers, Sequences, FiniteSets, TLC

VARIABLES
    alive,        \* is_alive(): a debuggee process exists
    arch,         \* get_arch(): the architecture name gdb reports
    regs,         \* the debuggee's register file: name -> 16 nibbles
    convars,      \* gdb convenience variables: set of <<name, value>>
    breakpoints,  \* WindbgSxeCommand.breakpoints: list of breakpoint objects (ids)
    gdbBps,       \* the BreakOnLoadSharedLibrary objects, by id
    flag,         \* the GEF setting "context.enable"
    pc,           \* the debuggee's program counter (index into Program)
    stack,        \* the debuggee's return addresses
    prog,         \* the debuggee's code
    tr,           \* the running tc / pc invocation (position, cnt, counters)
    hit,          \* the last dlopen breakpoint hit and each entry's stop() result
    last          \* the last command and how it ended

vars == <<alive, arch, regs, convars, breakpoints, gdbBps, flag, pc, stack,
          prog, tr, hit, last>>

-----------------------------------------------------------------------------
(* Bounds of the model.                                                    *)

MaxEntries == 2     \* breakpoints created by sxe ld in one session
MaxOps == 5         \* non-call instructions in front of the call / exit
MaxCount == 5       \* largest explicit COUNT given to tc / pc

-----------------------------------------------------------------------------
(* Python string operations used by the commands.                          *)

Char(s, i) == SubSeq(s, i, i)

\* index of the first occurrence of the character c in s, 0 when absent
IndexOf(s, c) ==
    IF \E i \in 1..Len(s) : Char(s, i) = c
    THEN CHOOSE i \in 1..Len(s) :
            /\ Char(s, i) = c
            /\ \A j \in 1..(i - 1) : Char(s, j) # c
    ELSE 0

\* c in s
Contains(s, c) == IndexOf(s, c) # 0

\* s.split(c, 1)
SplitOnce(s, c) ==
    LET i == IndexOf(s, c) IN
    IF i = 0 THEN <<s>>
    ELSE <<SubSeq(s, 1, i - 1), SubSeq(s, i + 1, Len(s))>>

\* s.split(c)
RECURSIVE Split(_, _)
Split(s, c) ==
    LET i == IndexOf(s, c) IN
    IF i = 0 THEN <<s>>
    ELSE <<SubSeq(s, 1, i - 1)>> \o Split(SubSeq(s, i + 1, Len(s)), c)

\* s.replace(c, '')
RECURSIVE Remove(_, _)
Remove(s, c) ==
    IF Len(s) = 0 THEN ""
    ELSE (IF Char(s, 1) = c THEN "" ELSE Char(s, 1))
            \o Remove(SubSeq(s, 2, Len(s)), c)

\* ''.join(argv)
RECURSIVE Join(_)
Join(argv) ==
    IF Len(argv) = 0 THEN "" ELSE Head(argv) \o Join(Tail(argv))

\* s.startswith(prefix)
StartsWith(s, prefix) ==
    /\ Len(prefix) <= Len(s)
    /\ SubSeq(s, 1, Len(prefix)) = prefix

\* s.endswith(suffix), comparing from the last character backwards
RECURSIVE EndsWith(_, _)
EndsWith(s, suffix) ==
    IF Len(suffix) = 0 THEN TRUE
    ELSE IF Len(s) = 0 THEN FALSE
    ELSE /\ Char(s, Len(s)) = Char(suffix, Len(suffix))
         /\ EndsWith(SubSeq(s, 1, Len(s) - 1),
                     SubSeq(suffix, 1, Len(suffix) - 1))

Range(f) == { f[i] : i \in DOMAIN f }

-----------------------------------------------------------------------------
(* 64-bit values as 16 nibbles.                                            *)

Nibbles == 1..16

Zero64 == [i \in Nibbles |-> 0]

\* the 64-bit value of a small natural number (below 16^4)
FromInt(n) ==
    [i \in Nibbles |->
        IF i = 16 THEN n % 16
        ELSE IF i = 15 THEN (n \div 16) % 16
        ELSE IF i = 14 THEN (n \div 256) % 16
        ELSE IF i = 13 THEN (n \div 4096) % 16
        ELSE 0]

\* a 64-bit value is below 16^4
IsSmall(v) == \A i \in 1..12 : v[i] = 0

\* the natural number of a small 64-bit value
ToInt(v) == v[13] * 4096 + v[14] * 256 + v[15] * 16 + v[16]

-----------------------------------------------------------------------------
(* The debuggee's memory: one mapped region holding NUL-terminated path    *)
(* strings.  NUL stands for the byte 0x00.                                 *)

NUL == "#"

Memory ==
    "/usr/lib/libfoo.so" \o NUL \o "/usr/lib/libfoobar.so" \o NUL
        \o "/usr/lib/libbar.so" \o NUL \o "/opt/LIBFOO.SO" \o NUL

\* the address of the first byte of the region
MemBase == 16 * 256

Mapped(a) == a >= MemBase /\ a < MemBase + Len(Memory)

\* the byte at a mapped address
Byte(a) == Char(Memory, a - MemBase + 1)

\* addresses at which a string of the memory starts
StringStarts ==
    { a \in MemBase..(MemBase + Len(Memory) - 1) :
        a = MemBase \/ Byte(a - 1) = NUL }

\* the pointer arguments the debuggee passes to dlopen: NULL, every string
\* of the memory, a pointer into the middle of a string, an unmapped address
Pointers == {0, MemBase + 9, MemBase + Len(Memory)} \cup StringStarts

\* read_cstring_from_memory(address, max_length=None): the bytes up to the
\* first NUL; the read raises when it touches an unmapped address
RECURSIVE read_cstring_from_memory(_)
read_cstring_from_memory(a) ==
    IF ~Mapped(a) THEN [ok |-> FALSE, s |-> ""]
    ELSE IF Byte(a) = NUL THEN [ok |-> TRUE, s |-> ""]
    ELSE LET rest == read_cstring_from_memory(a + 1) IN
         [ok |-> rest.ok, s |-> Byte(a) \o rest.s]

-----------------------------------------------------------------------------
(* Architectures and register sets.                                        *)

X86 == "i386:x86-64"
ARM == "aarch64"

\* print_gprs: the canonical register lists
GprsX86 ==
    <<"rax", "rbx", "rcx", "rdx", "rsi", "rdi", "rip", "rsp", "rbp",
      "r8", "r9", "r10", "r11", "r12", "r13", "r14", "r15">>

GprsArm ==
    <<"x0", "x1", "x2", "x3", "x4", "x5", "x6", "x7", "x8", "x9", "x10",
      "x11", "x12", "x13", "x14", "x15", "x16", "x17", "x18", "x19", "x20",
      "x21", "x22", "x23", "x24", "x25", "x26", "x27", "x28", "fp", "lr",
      "sp", "pc">>

Gprs(a) ==
    IF StartsWith(a, X86) THEN GprsX86
    ELSE IF StartsWith(a, ARM) THEN GprsArm
    ELSE <<>>

\* the registers gdb knows for the architecture
RegisterSet(a) == Range(Gprs(a))

\* current_arch.function_parameters[0]
FirstParam(a) == IF StartsWith(a, ARM) THEN "x0" ELSE "rdi"

\* get_register(name) of a live debuggee
get_register(name) == regs[name]

IsZero(v) == \A i \in Nibbles : v[i] = 0

\* lookup_address(value): an Address object carrying the value it was given
lookup_address(v) == [value |-> v]

-----------------------------------------------------------------------------
(* BreakOnLoadSharedLibrary.                                               *)

\* __init__(module_name): a visible breakpoint on dlopen
NewBreakpoint(module_name) ==
    [module_name |-> module_name, silent |-> TRUE, enabled |-> TRUE,
     valid |-> TRUE]

\* the string read at the address a register value names
ReadPath(v) ==
    IF IsSmall(v) THEN read_cstring_from_memory(ToInt(v))
    ELSE [ok |-> FALSE, s |-> ""]

\* a comparison of the whole path
PathEquals(path, module_name) == path = module_name

\* path.endswith(self.module_name)
PathMatches(path, module_name) == EndsWith(path, module_name)

\* stop(): "True" / "False" as returned, "raise" when the body raises
stop(module_name, r) ==
    LET reg == FirstParam(arch)
        addr == lookup_address(r[reg])
    IN  IF IsZero(addr.value) THEN "False"
        ELSE LET path == ReadPath(addr.value) IN
             IF ~path.ok THEN "raise"
             ELSE IF PathMatches(path.s, module_name) THEN "True"
             ELSE "False"

\* gdb calls stop() of every valid, enabled breakpoint at the location;
\* "none" marks the breakpoints it does not evaluate
Decisions(r) ==
    [id \in DOMAIN gdbBps |->
        IF gdbBps[id].valid /\ gdbBps[id].enabled
        THEN stop(gdbBps[id].module_name, r)
        ELSE "none"]

\* gdb stops the debuggee when a stop() returns True or raises
SaysStop(dec) == \E id \in DOMAIN dec : dec[id] \in {"True", "raise"}

-----------------------------------------------------------------------------
(* Command results.                                                        *)

\* what a command leaves behind: how it ended ("ok", "usage", "NotRunning"
\* for the only_if_gdb_running warning, or the exception it raised), the
\* breakpoint it touched, the steps it issued, what it printed, and for the
\* tracer how often it switched context.enable off and on, whether the loop
\* ended on a call, and the flag, liveness and program counter it found
Last(cmd, argv, result, bp, steps, out) ==
    [cmd |-> cmd, argv |-> argv, result |-> result, bp |-> bp,
     steps |-> steps, out |-> out, offs |-> 0, ons |-> 0,
     sawCall |-> FALSE, prior |-> flag, wasAlive |-> alive, from |-> pc]

NoHit == [ptr |-> 0, dec |-> <<>>, seen |-> FALSE]

Idle == [pos |-> "idle", cmd |-> "", argv |-> <<>>, cnt |-> 0,
         big |-> FALSE, steps |-> 0, offs |-> 0, ons |-> 0,
         sawCall |-> FALSE, prior |-> TRUE, from |-> 0]

-----------------------------------------------------------------------------
(* WindbgSxeCommand.                                                       *)

SxeModules == {"libfoo.so", "libbar.so"}

SxeArgvs ==
    {<<>>, <<"ld">>}
        \cup { <<a \o ":" \o m>> : a \in {"ld", "ud", "xx"}, m \in SxeModules }

\* bkps.remove(bkp): the list without the first occurrence of bkp
RemoveFirst(l, x) ==
    LET i == CHOOSE k \in 1..Len(l) :
                l[k] = x /\ \A j \in 1..(k - 1) : l[j] # x
    IN  SubSeq(l, 1, i - 1) \o SubSeq(l, i + 1, Len(l))

\* the list without its filter: every entry, whatever its name
MatchingAll(module) == breakpoints

\* [bp for bp in self.breakpoints if bp.module_name == module]
Matching(module) ==
    SelectSeq(breakpoints, LAMBDA id : gdbBps[id].module_name = module)

\* sxe ld:module
SxeLoad(argv, module) ==
    LET id == Len(gdbBps) + 1 IN
    /\ Len(gdbBps) < MaxEntries
    /\ gdbBps' = Append(gdbBps, NewBreakpoint(module))
    /\ breakpoints' = Append(breakpoints, id)
    /\ last' = Last("sxe", argv, "ok", id, 0, <<>>)

\* sxe ud:module that takes the first entry of the collection instead of
\* the first entry of the module
SxeUnloadFirstOfAll(argv, module) ==
    LET bkps == Matching(module) IN
    IF Len(bkps) > 0
    THEN LET bkp == breakpoints[1] IN
         IF ~gdbBps[bkp].valid
         THEN /\ last' = Last("sxe", argv, "RuntimeError", bkp, 0, <<>>)
              /\ UNCHANGED <<gdbBps, breakpoints>>
         ELSE /\ gdbBps' = [gdbBps EXCEPT ![bkp].enabled = FALSE,
                                          ![bkp].valid = FALSE]
              /\ breakpoints' = breakpoints
              /\ last' = Last("sxe", argv, "ok", bkp, Len(bkps) - 1, <<>>)
    ELSE /\ last' = Last("sxe", argv, "ok", 0, 0, <<>>)
         /\ UNCHANGED <<gdbBps, breakpoints>>

\* sxe ud:module
SxeUnload(argv, module) ==
    LET bkps == Matching(module) IN
    IF Len(bkps) > 0
    THEN LET bkp == bkps[1] IN
         IF ~gdbBps[bkp].valid
         THEN \* bkp.enabled = False on a deleted breakpoint raises
              /\ last' = Last("sxe", argv, "RuntimeError", bkp, 0, <<>>)
              /\ UNCHANGED <<gdbBps, breakpoints>>
         ELSE LET bkps2 == RemoveFirst(bkps, bkp) IN
              /\ gdbBps' = [gdbBps EXCEPT ![bkp].enabled = FALSE,
                                          ![bkp].valid = FALSE]
              \* only the local list bkps loses the entry
              /\ breakpoints' = breakpoints
              /\ last' = Last("sxe", argv, "ok", bkp, Len(bkps2), <<>>)
    ELSE /\ last' = Last("sxe", argv, "ok", 0, 0, <<>>)
         /\ UNCHANGED <<gdbBps, breakpoints>>

SxeInvoke(argv) ==
    /\ tr.pos = "idle"
    /\ IF Len(argv) < 1
       THEN /\ last' = Last("sxe", argv, "usage", 0, 0, <<>>)
            /\ UNCHANGED <<gdbBps, breakpoints>>
       ELSE LET parts == SplitOnce(argv[1], ":") IN
            IF Len(parts) # 2
            THEN \* action, module = ... cannot unpack one value
                 /\ last' = Last("sxe", argv, "ValueError", 0, 0, <<>>)
                 /\ UNCHANGED <<gdbBps, breakpoints>>
            ELSE IF parts[1] = "ld" THEN SxeLoad(argv, parts[2])
            ELSE IF parts[1] = "ud" THEN SxeUnload(argv, parts[2])
            ELSE /\ last' = Last("sxe", argv, "usage", 0, 0, <<>>)
                 /\ UNCHANGED <<gdbBps, breakpoints>>
    /\ UNCHANGED <<alive, arch, regs, convars, flag, pc, stack, prog, tr, hit>>

Sxe == \E argv \in SxeArgvs : SxeInvoke(argv)

-----------------------------------------------------------------------------
(* WindbgGoCommand.                                                        *)

\* the command lines of g: argv is the debuggee's command line for "run"
GoArgvs == {<<>>, <<"a", "b">>}

\* g on a dead debuggee: gdb "run " + " ".join(argv).  A new process runs
\* from its start; it calls dlopen(p), gdb asks every breakpoint there
\* whether to stop; when none does the debuggee runs on until it exits.
\* When it stops, prog from pc on is what the debuggee executes next.
GoRun(argv, p) ==
    LET fresh == [n \in DOMAIN regs |-> Zero64]
        r == IF FirstParam(arch) \in DOMAIN regs
             THEN [fresh EXCEPT ![FirstParam(arch)] = FromInt(p)]
             ELSE fresh
        dec == Decisions(r)
    IN  /\ tr.pos = "idle"
        /\ ~alive
        /\ regs' = r
        /\ pc' = 1
        /\ stack' = <<>>
        /\ hit' = [ptr |-> p, dec |-> dec, seen |-> TRUE]
        /\ alive' = SaysStop(dec)
        /\ last' = Last("g", argv, "ok", 0, 0, <<>>)
        /\ UNCHANGED <<arch, convars, breakpoints, gdbBps, flag, prog, tr>>

\* g on a live debuggee: gdb "continue", argv is not used; the debuggee
\* calls dlopen(p), gdb asks every breakpoint there whether to stop; when
\* none does the debuggee runs on until it exits
GoContinue(argv, p) ==
    LET r == [regs EXCEPT ![FirstParam(arch)] = FromInt(p)]
        dec == Decisions(r)
    IN  /\ tr.pos = "idle"
        /\ alive
        /\ regs' = r
        /\ hit' = [ptr |-> p, dec |-> dec, seen |-> TRUE]
        /\ alive' = SaysStop(dec)
        /\ last' = Last("g", argv, "ok", 0, 0, <<>>)
        /\ UNCHANGED <<arch, convars, breakpoints, gdbBps, flag, pc, stack,
                       prog, tr>>

\* g while no breakpoint of sxe exists, on a debuggee whose only dlopen
\* is dlopen(NULL): it runs to its exit
GoRunPlain == \E argv \in GoArgvs : GoRun(argv, 0)

Go ==
    \E argv \in GoArgvs : \E p \in Pointers :
        GoRun(argv, p) \/ GoContinue(argv, p)

-----------------------------------------------------------------------------
(* The debuggee's code and gdb's step primitives.                          *)

Ops(k) == [i \in 1..k |-> "op"]

\* k plain instructions, then a call or an exit, then the rest of main; the
\* called function follows main
Program(k, t) == Ops(k) \o <<t, "op", "exit">> \o <<"op", "ret">>

Programs == { Program(k, t) : k \in 0..MaxOps, t \in {"call", "exit"} }

\* k plain instructions and a jump back to the first: a debuggee that
\* neither calls nor exits
LoopProgram(k) == Ops(k) \o <<"jmp">>

LoopPrograms == { LoopProgram(k) : k \in 0..2 }

\* the steps a tracer invocation is followed for; every program of
\* Programs ends before it
MaxSteps == 2 * MaxOps + 2

\* where every call of the program goes
CalleeEntry(p) == Len(p) - 1

\* a classifier that looks at the instruction just executed
is_call_previous(p, at) == at > 1 /\ p[at - 1] = "call"

\* current_arch.is_call(gef_current_instruction(current_arch.pc))
is_call(p, at) == p[at] = "call"

\* gdb "stepi" / "nexti": one instruction; nexti runs a called function to
\* its return.  Yields the debuggee after the step.
StepDebuggee(variant) ==
    LET insn == prog[pc] IN
    IF insn = "exit" THEN [alive |-> FALSE, pc |-> pc, stack |-> stack]
    ELSE IF insn = "call" /\ variant = "stepi"
    THEN [alive |-> TRUE, pc |-> CalleeEntry(prog),
          stack |-> <<pc + 1>> \o stack]
    ELSE IF insn = "ret"
    THEN [alive |-> TRUE, pc |-> Head(stack), stack |-> Tail(stack)]
    ELSE IF insn = "jmp"
    THEN [alive |-> TRUE, pc |-> 1, stack |-> stack]
    ELSE [alive |-> TRUE, pc |-> pc + 1, stack |-> stack]

-----------------------------------------------------------------------------
(* Python int().                                                           *)

DecDigits == "0123456789"
HexDigits == "0123456789abcdef"
HexUpper == "0123456789ABCDEF"

\* the decimal text of an integer in -9..9
Dec(n) == IF n < 0 THEN "-" \o Char(DecDigits, 1 - n) ELSE Char(DecDigits, n + 1)

IsSign(c) == c = "-" \/ c = "+"

\* the text without a leading sign
Unsigned(s) == IF Len(s) > 0 /\ IsSign(Char(s, 1)) THEN SubSeq(s, 2, Len(s)) ELSE s

IsNegative(s) == Len(s) > 0 /\ Char(s, 1) = "-"

RECURSIVE DecValue(_)
DecValue(s) ==
    IF Len(s) = 0 THEN 0
    ELSE DecValue(SubSeq(s, 1, Len(s) - 1)) * 10
            + (IndexOf(DecDigits, Char(s, Len(s))) - 1)

\* the characters without an escape in a string: vertical tab (0x0b),
\* next line (0x85) and no-break space (0xa0)
VT == ""
NEL == ""
NBSP == " "

\* the characters int() skips in front of and behind the number: the
\* whitespace of Python among the characters a string of the model can
\* hold (0x00..0xff); the spaces and the decimal digits above 0xff that
\* int() takes too are outside that alphabet
Whitespace == {" ", "\t", "\n", VT, "\f", "\r", NEL, NBSP}

\* s.strip()
RECURSIVE Strip(_)
Strip(s) ==
    IF Len(s) > 0 /\ Char(s, 1) \in Whitespace
    THEN Strip(SubSeq(s, 2, Len(s)))
    ELSE IF Len(s) > 0 /\ Char(s, Len(s)) \in Whitespace
    THEN Strip(SubSeq(s, 1, Len(s) - 1))
    ELSE s

\* int() allows one '_' between two digits: none in front, none behind,
\* no two in a row
UnderscoresOk(u) ==
    /\ Len(u) > 0
    /\ Char(u, 1) # "_"
    /\ Char(u, Len(u)) # "_"
    /\ \A i \in 1..(Len(u) - 1) : ~(Char(u, i) = "_" /\ Char(u, i + 1) = "_")

\* int(s): [ok, n]; not ok is ValueError
int10(s) ==
    LET t == Strip(s)
        u == Unsigned(t)
        d == Remove(u, "_")
    IN  IF ~UnderscoresOk(u)
            \/ \E i \in 1..Len(d) : ~Contains(DecDigits, Char(d, i))
        THEN [ok |-> FALSE, n |-> 0]
        ELSE [ok |-> TRUE,
              n |-> IF IsNegative(t) THEN 0 - DecValue(d) ELSE DecValue(d)]

-----------------------------------------------------------------------------
(* WindbgTcCommand / WindbgPcCommand.                                      *)
(* cnt is kept as big * 0xffffffffffffffff + cnt: big marks the default    *)
(* budget, from which the loop can only count down.                        *)

TcArgvs ==
    {<<>>} \cup { <<Dec(n)>> : n \in (0 - 1)..MaxCount }
           \cup {<<"x">>, <<"0_2">>, <<" " \o VT \o " 3" \o NBSP>>}

StepOf(cmd) == IF cmd = "tc" THEN "stepi" ELSE "nexti"

\* the tracer entered without the liveness check
TraceInvokeUnguarded(cmd, argv) ==
    /\ tr.pos = "idle"
    /\ tr' = [Idle EXCEPT !.pos = "test", !.cmd = cmd, !.argv = argv,
                          !.big = TRUE, !.prior = flag, !.from = pc]
    /\ UNCHANGED <<alive, arch, regs, convars, breakpoints, gdbBps, flag, pc,
                   stack, prog, hit, last>>

\* the tracer switching context.enable off before anything else
TraceInvokeSuppressFirst(cmd, argv) ==
    /\ tr.pos = "idle"
    /\ flag' = FALSE
    /\ IF ~alive
       THEN /\ last' = Last(cmd, argv, "NotRunning", 0, 0, <<>>)
            /\ tr' = tr
       ELSE IF Len(argv) = 0
       THEN /\ tr' = [Idle EXCEPT !.pos = "test", !.cmd = cmd, !.argv = argv,
                                  !.big = TRUE, !.prior = flag,
                                  !.from = pc]
            /\ last' = last
       ELSE LET c == int10(argv[1]) IN
            IF ~c.ok
            THEN /\ last' = Last(cmd, argv, "ValueError", 0, 0, <<>>)
                 /\ tr' = tr
            ELSE /\ tr' = [Idle EXCEPT !.pos = "test", !.cmd = cmd,
                                       !.argv = argv, !.cnt = c.n,
                                       !.prior = flag, !.from = pc]
                 /\ last' = last
    /\ UNCHANGED <<alive, arch, regs, convars, breakpoints, gdbBps, pc,
                   stack, prog, hit>>

\* @only_if_gdb_running, then cnt = int(argv[0]) if len(argv) else 0xff..ff
TraceInvoke(cmd, argv) ==
    /\ tr.pos = "idle"
    /\ IF ~alive
       THEN /\ last' = Last(cmd, argv, "NotRunning", 0, 0, <<>>)
            /\ tr' = tr
       ELSE IF Len(argv) = 0
       THEN /\ tr' = [Idle EXCEPT !.pos = "test", !.cmd = cmd, !.argv = argv,
                                  !.big = TRUE, !.prior = flag,
                                  !.from = pc]
            /\ last' = last
       ELSE LET c == int10(argv[1]) IN
            IF ~c.ok
            THEN /\ last' = Last(cmd, argv, "ValueError", 0, 0, <<>>)
                 /\ tr' = tr
            ELSE /\ tr' = [Idle EXCEPT !.pos = "test", !.cmd = cmd,
                                       !.argv = argv, !.cnt = c.n,
                                       !.prior = flag, !.from = pc]
                 /\ last' = last
    /\ UNCHANGED <<alive, arch, regs, convars, breakpoints, gdbBps, flag, pc,
                   stack, prog, hit>>

\* while cnt:
TraceTest ==
    /\ tr.pos = "test"
    /\ tr' = [tr EXCEPT !.pos = IF tr.big \/ tr.cnt # 0 THEN "body" ELSE "restore"]
    /\ UNCHANGED <<alive, arch, regs, convars, breakpoints, gdbBps, flag, pc,
                   stack, prog, hit, last>>

\* the loop body without the decrement
TraceSuppressNoDecrement ==
    /\ tr.pos = "body"
    /\ tr.steps < MaxSteps
    /\ flag' = FALSE
    /\ tr' = [tr EXCEPT !.pos = "step", !.offs = tr.offs + 1]
    /\ UNCHANGED <<alive, arch, regs, convars, breakpoints, gdbBps, pc, stack,
                   prog, hit, last>>

\* cnt -= 1; set_gef_setting("context.enable", False)
TraceSuppress ==
    /\ tr.pos = "body"
    /\ tr.steps < MaxSteps
    /\ flag' = FALSE
    /\ tr' = [tr EXCEPT !.pos = "step", !.cnt = tr.cnt - 1, !.offs = tr.offs + 1]
    /\ UNCHANGED <<alive, arch, regs, convars, breakpoints, gdbBps, pc, stack,
                   prog, hit, last>>

\* gdb.execute("stepi") / gdb.execute("nexti")
TraceStep ==
    LET d == StepDebuggee(StepOf(tr.cmd)) IN
    /\ tr.pos = "step"
    /\ alive' = d.alive
    /\ pc' = d.pc
    /\ stack' = d.stack
    /\ tr' = [tr EXCEPT !.pos = "classify", !.steps = tr.steps + 1]
    /\ UNCHANGED <<arch, regs, convars, breakpoints, gdbBps, flag, prog, hit,
                   last>>

\* the record a tracer invocation leaves when it ends
TraceEnd(result, t) ==
    [Last(t.cmd, t.argv, result, 0, t.steps, <<>>)
        EXCEPT !.offs = t.offs, !.ons = t.ons, !.sawCall = t.sawCall,
               !.prior = t.prior, !.wasAlive = TRUE, !.from = t.from]

\* the classification without the break: a call is seen and the loop goes
\* on
TraceClassifyNoBreak ==
    /\ tr.pos = "classify"
    /\ IF ~alive
       THEN /\ last' = TraceEnd("gdb.error", tr)
            /\ tr' = Idle
       ELSE /\ tr' = [tr EXCEPT !.pos = "test",
                                !.sawCall = tr.sawCall \/ is_call(prog, pc)]
            /\ last' = last
    /\ UNCHANGED <<alive, arch, regs, convars, breakpoints, gdbBps, flag, pc,
                   stack, prog, hit>>

\* insn = gef_current_instruction(current_arch.pc); if is_call(insn): break
\* Reading pc of a debuggee that has exited raises gdb.error, which ends
\* the command
TraceClassify ==
    /\ tr.pos = "classify"
    /\ IF ~alive
       THEN /\ last' = TraceEnd("gdb.error", tr)
            /\ tr' = Idle
       ELSE IF is_call(prog, pc)
       THEN /\ tr' = [tr EXCEPT !.pos = "restore", !.sawCall = TRUE]
            /\ last' = last
       ELSE /\ tr' = [tr EXCEPT !.pos = "test"]
            /\ last' = last
    /\ UNCHANGED <<alive, arch, regs, convars, breakpoints, gdbBps, flag, pc,
                   stack, prog, hit>>

\* the end of the loop without the write of context.enable
TraceRestoreNoWrite ==
    /\ tr.pos = "restore"
    /\ flag' = flag
    /\ tr' = [tr EXCEPT !.pos = "context", !.ons = tr.ons + 1]
    /\ UNCHANGED <<alive, arch, regs, convars, breakpoints, gdbBps, pc, stack,
                   prog, hit, last>>

\* set_gef_setting("context.enable", True)
TraceRestore ==
    /\ tr.pos = "restore"
    /\ flag' = TRUE
    /\ tr' = [tr EXCEPT !.pos = "context", !.ons = tr.ons + 1]
    /\ UNCHANGED <<alive, arch, regs, convars, breakpoints, gdbBps, pc, stack,
                   prog, hit, last>>

\* gdb.execute("context"); return
TraceContext ==
    /\ tr.pos = "context"
    /\ last' = TraceEnd("ok", tr)
    /\ tr' = Idle
    /\ UNCHANGED <<alive, arch, regs, convars, breakpoints, gdbBps, flag, pc,
                   stack, prog, hit>>

Tc == \E argv \in TcArgvs : TraceInvoke("tc", argv)

Pc == \E argv \in TcArgvs : TraceInvoke("pc", argv)

-----------------------------------------------------------------------------
(* int(valstr, 16) and gdb's evaluation of the literal it is formatted to. *)

\* the value of one hexadecimal digit, -1 for any other character
HexVal(c) ==
    IF Contains(HexDigits, c) THEN IndexOf(HexDigits, c) - 1
    ELSE IF Contains(HexUpper, c) THEN IndexOf(HexUpper, c) - 1
    ELSE 0 - 1

\* the text without a leading 0x / 0X, and without the one '_' that may
\* follow that prefix
NoPrefix(s) ==
    IF Len(s) >= 2 /\ Char(s, 1) = "0" /\ Char(s, 2) \in {"x", "X"}
    THEN IF Len(s) >= 3 /\ Char(s, 3) = "_"
         THEN SubSeq(s, 4, Len(s))
         ELSE SubSeq(s, 3, Len(s))
    ELSE s

RECURSIVE StripZeros(_)
StripZeros(d) ==
    IF Len(d) > 0 /\ Head(d) = 0 THEN StripZeros(Tail(d)) ELSE d

\* int(s): the text read in base 10
int16_base10(s) ==
    LET u == Unsigned(s) IN
    IF Len(u) = 0 \/ \E i \in 1..Len(u) : ~Contains(DecDigits, Char(u, i))
    THEN [ok |-> FALSE, neg |-> FALSE, mag |-> <<>>]
    ELSE LET mag == StripZeros([i \in 1..Len(u) |->
                                    IndexOf(DecDigits, Char(u, i)) - 1]) IN
         [ok |-> TRUE, neg |-> IsNegative(s) /\ Len(mag) > 0, mag |-> mag]

\* int(s, 16): [ok, neg, mag]; mag holds the digits of the magnitude, most
\* significant first, without leading zeros; not ok is ValueError
int16(s) ==
    LET t == Strip(s)
        u == NoPrefix(Unsigned(t))
        d == Remove(u, "_")
    IN  IF ~UnderscoresOk(u) \/ \E i \in 1..Len(d) : HexVal(Char(d, i)) < 0
        THEN [ok |-> FALSE, neg |-> FALSE, mag |-> <<>>]
        ELSE LET mag == StripZeros([i \in 1..Len(d) |-> HexVal(Char(d, i))]) IN
             [ok |-> TRUE, neg |-> IsNegative(t) /\ Len(mag) > 0, mag |-> mag]

\* the magnitude as a 64-bit value (at most 16 digits)
Pad64(mag) ==
    [i \in Nibbles |-> IF i > 16 - Len(mag) THEN mag[i - (16 - Len(mag))] ELSE 0]

\* two's complement negation of a 64-bit value
Negate64(v) ==
    LET low == IF IsZero(v) THEN 0
               ELSE CHOOSE i \in Nibbles :
                        v[i] # 0 /\ \A j \in (i + 1)..16 : v[j] = 0
    IN  [i \in Nibbles |->
            IF i > low THEN 0
            ELSE IF i = low THEN 16 - v[i]
            ELSE 15 - v[i]]

\* what gdb stores for the literal "{:#x}".format(val): [ok, v]; a literal
\* of more than 64 bits is rejected ("Numeric constant too large.")
GdbLiteral(val) ==
    IF Len(val.mag) > 16 THEN [ok |-> FALSE, v |-> Zero64]
    ELSE [ok |-> TRUE,
          v |-> IF val.neg THEN Negate64(Pad64(val.mag)) ELSE Pad64(val.mag)]

-----------------------------------------------------------------------------
(* WindbgRCommand.                                                         *)

\* reg.rjust(3)
RJust3(reg) ==
    IF Len(reg) >= 3 THEN reg
    ELSE IF Len(reg) = 2 THEN " " \o reg
    ELSE IF Len(reg) = 1 THEN "  " \o reg
    ELSE "   "

\* '%016x' % value
Hex16(v) ==
    LET RECURSIVE Digits(_)
        Digits(i) == IF i > 16 THEN ""
                     ELSE Char(HexDigits, v[i] + 1) \o Digits(i + 1)
    IN  Digits(1)

\* print_reg(reg)
print_reg(reg) == RJust3(reg) \o "=" \o Hex16(get_register(reg))

\* chunks that stop before a last, shorter chunk
RECURSIVE chunks_full_only(_, _)
chunks_full_only(l, n) ==
    IF Len(l) < n THEN <<>>
    ELSE <<SubSeq(l, 1, n)>> \o chunks_full_only(SubSeq(l, n + 1, Len(l)), n)

\* chunks(l, n)
RECURSIVE chunks(_, _)
chunks(l, n) ==
    IF Len(l) = 0 THEN <<>>
    ELSE IF Len(l) <= n THEN <<l>>
    ELSE <<SubSeq(l, 1, n)>> \o chunks(SubSeq(l, n + 1, Len(l)), n)

\* one printed line: the entries of a chunk, a space between two of them
RECURSIVE PrintLine(_)
PrintLine(rs) ==
    IF Len(rs) = 0 THEN ""
    ELSE IF Len(rs) = 1 THEN print_reg(rs[1])
    ELSE print_reg(rs[1]) \o " " \o PrintLine(Tail(rs))

\* print_regs(reg_list, n): the lines printed
print_regs(reg_list, n) ==
    LET cs == chunks(reg_list, n) IN
    [i \in 1..Len(cs) |-> PrintLine(cs[i])]

\* the registers per line print_gprs asks for, 0 for an unknown architecture
PerLine(a) ==
    IF StartsWith(a, X86) THEN 3
    ELSE IF StartsWith(a, ARM) THEN 4
    ELSE 0

\* print_gprs(): [result, out]; raise NotImplemented is itself a TypeError
print_gprs ==
    IF PerLine(arch) = 0 THEN [result |-> "TypeError", out |-> <<>>]
    ELSE [result |-> "ok", out |-> print_regs(Gprs(arch), PerLine(arch))]

\* self.print_regs(regs): the call passes reg_list alone, and print_regs
\* takes reg_list and n
CallPrintRegs(args) ==
    IF Len(args) # 2 THEN [result |-> "TypeError", out |-> <<>>]
    ELSE [result |-> "ok", out |-> print_regs(args[1], args[2])]

\* ''.join(argv).replace(' ', '').replace('@', '')
Combined(argv) == Remove(Remove(Join(argv), " "), "@")

\* the register the model's r commands name: the first of the
\* architecture's list
RReg(a) == IF Len(Gprs(a)) = 0 THEN "rax" ELSE Gprs(a)[1]

\* a second register, for lists
RReg2(a) == IF Len(Gprs(a)) = 0 THEN "rbx" ELSE Gprs(a)[10]

\* the names r writes to: a register and a name gdb has no register for
RNames(a) == {RReg(a), "foo"}

RValues ==
    {"1f", "0X2A", "-1", "10000000000000000", "zz", "1_f", VT \o "1f" \o NEL}

RArgvs(a) ==
    {<<>>, <<"@" \o RReg(a), "= ffffffffffffffff">>, <<RReg(a) \o "==1">>,
     <<RReg(a)>>, <<RReg(a) \o "," \o RReg2(a)>>,
     <<RReg2(a) \o "," \o RReg(a) \o "," \o RReg2(a)>>,
     <<RReg2(a) \o "=1f">>, <<RReg2(a)>>}
        \cup { <<n \o "=" \o v>> : n \in RNames(a), v \in RValues }

\* gdb "set $reg = literal": a register of the debuggee is written, any
\* other name becomes a convenience variable
GdbSet(argv, regstr, val) ==
    LET lit == GdbLiteral(val) IN
    IF ~lit.ok
    THEN /\ last' = Last("r", argv, "gdb.error", 0, 0, <<>>)
         /\ UNCHANGED <<regs, convars>>
    ELSE IF regstr \in DOMAIN regs
    THEN /\ regs' = [regs EXCEPT ![regstr] = lit.v]
         /\ convars' = convars
         /\ last' = Last("r", argv, "ok", 0, 0, <<>>)
    ELSE /\ convars' = { cv \in convars : cv[1] # regstr } \cup {<<regstr, lit.v>>}
         /\ regs' = regs
         /\ last' = Last("r", argv, "ok", 0, 0, <<>>)

RInvoke(argv) ==
    /\ tr.pos = "idle"
    /\ IF ~alive
       THEN /\ last' = Last("r", argv, "NotRunning", 0, 0, <<>>)
            /\ UNCHANGED <<regs, convars>>
       ELSE IF Len(argv) < 1
       THEN /\ last' = Last("r", argv, print_gprs.result, 0, 0, print_gprs.out)
            /\ UNCHANGED <<regs, convars>>
       ELSE LET combined == Combined(argv) IN
            IF Contains(combined, "=")
            THEN LET parts == Split(combined, "=") IN
                 IF Len(parts) # 2
                 THEN \* (regstr, valstr) = ... too many values to unpack
                      /\ last' = Last("r", argv, "ValueError", 0, 0, <<>>)
                      /\ UNCHANGED <<regs, convars>>
                 ELSE LET val == int16(parts[2]) IN
                      IF ~val.ok
                      THEN /\ last' = Last("r", argv, "ValueError", 0, 0, <<>>)
                           /\ UNCHANGED <<regs, convars>>
                      ELSE GdbSet(argv, parts[1], val)
            ELSE LET res == CallPrintRegs(<<Split(combined, ",")>>) IN
                 /\ last' = Last("r", argv, res.result, 0, 0, res.out)
                 /\ UNCHANGED <<regs, convars>>
    /\ UNCHANGED <<alive, arch, breakpoints, gdbBps, flag, pc, stack, prog, tr,
                   hit>>

R == \E argv \in RArgvs(arch) : RInvoke(argv)

-----------------------------------------------------------------------------
(* Specifications.                                                         *)

Architectures == {X86, ARM}

\* the session after the script is loaded: no watch entry, no command
\* issued; the debuggee may have been started with gdb's own commands
InitSession ==
    /\ regs = [n \in RegisterSet(arch) |-> Zero64]
    /\ convars = {}
    /\ breakpoints = <<>>
    /\ gdbBps = <<>>
    /\ pc = 1
    /\ stack = <<>>
    /\ tr = Idle
    /\ hit = NoHit
    /\ last = Last("", <<>>, "ok", 0, 0, <<>>)

\* a debuggee for the sessions that do not trace it
SmallProgram == Program(1, "call")

Trace ==
    \/ Tc
    \/ Pc
    \/ TraceTest
    \/ TraceSuppress
    \/ TraceStep
    \/ TraceClassify
    \/ TraceRestore
    \/ TraceContext

\* sxe and g: the module-load watchpoints
InitSxe ==
    /\ alive = FALSE
    /\ arch \in Architectures
    /\ prog = SmallProgram
    /\ flag = TRUE
    /\ InitSession

NextSxe == Sxe \/ Go

SpecSxe == InitSxe /\ [][NextSxe]_vars

\* tc, pc and g: the tracer, for every debuggee and either setting of
\* context.enable
InitTrace ==
    /\ alive \in BOOLEAN
    /\ arch = X86
    /\ prog \in Programs
    /\ flag \in BOOLEAN
    /\ InitSession

NextTrace == Trace \/ GoRunPlain

SpecTrace == InitTrace /\ [][NextTrace]_vars

\* tc and pc on a debuggee that loops for ever without a call
InitLoop ==
    /\ alive \in BOOLEAN
    /\ arch = X86
    /\ prog \in LoopPrograms
    /\ flag \in BOOLEAN
    /\ InitSession

SpecLoop == InitLoop /\ [][NextTrace]_vars

\* r and g: the register model, for the two supported architectures and
\* one that print_gprs does not know
InitReg ==
    /\ alive \in BOOLEAN
    /\ arch \in Architectures \cup {"mips"}
    /\ prog = SmallProgram
    /\ flag = TRUE
    /\ InitSession

NextReg == R \/ GoRunPlain

SpecReg == InitReg /\ [][NextReg]_vars

\* every command while no debuggee runs
InitIdle ==
    /\ alive = FALSE
    /\ arch \in Architectures
    /\ prog = SmallProgram
    /\ flag \in BOOLEAN
    /\ InitSession

NextIdle == Sxe \/ Tc \/ Pc \/ R

SpecIdle == InitIdle /\ [][NextIdle]_vars

\* the whole session: every command, in any order
Init ==
    /\ alive \in BOOLEAN
    /\ arch \in Architectures
    /\ prog \in Programs
    /\ flag \in BOOLEAN
    /\ InitSession

Next == Sxe \/ Go \/ Trace \/ R

Spec == Init /\ [][Next]_vars

-----------------------------------------------------------------------------
(* Reading a command line back.                                            *)

\* the sxe action and module of an argv, <<>> when it has none
SxeParts(argv) ==
    IF Len(argv) < 1 THEN <<>>
    ELSE LET parts == SplitOnce(argv[1], ":") IN
         IF Len(parts) = 2 THEN parts ELSE <<>>

IsUnwatch(argv, m) == SxeParts(argv) = <<"ud", m>>

IsWatch(argv, m) == SxeParts(argv) = <<"ld", m>>

Tracers == {"tc", "pc"}

\* a tracer invocation has ended (normally or by an exception)
TraceEnded == tr.pos = "idle" /\ last.cmd \in Tracers /\ last.wasAlive

-----------------------------------------------------------------------------
(* Claims.                                                                 *)

\* C1: after sxe ud:m with a Watch Entry named m in the collection, that
\* entry is no longer in the collection and its breakpoint is disabled and
\* deleted.
C1_UnwatchRemovesEntry ==
    \A m \in SxeModules :
        (/\ last.cmd = "sxe"
         /\ IsUnwatch(last.argv, m)
         /\ last.result = "ok"
         /\ last.bp # 0)
        => /\ last.bp \notin Range(breakpoints)
           /\ ~gdbBps[last.bp].enabled
           /\ ~gdbBps[last.bp].valid

\* C2: whenever a tc / pc invocation that switched context.enable off has
\* ended, it switched the setting back on exactly once, and the setting is
\* on.
C2_FlagRestoredOnEveryExit ==
    (TraceEnded /\ last.offs > 0) => (last.ons = 1 /\ flag)

\* C3 as stated: every command issued while no debuggee runs fails with
\* NotRunning and leaves the Watch Entry collection and context.enable
\* unchanged.
C3_EveryCommandFailsNotRunning ==
    [][~alive =>
        /\ last'.result = "NotRunning"
        /\ breakpoints' = breakpoints
        /\ gdbBps' = gdbBps
        /\ flag' = flag]_vars

\* C3, amended: tc, pc and r issued while no debuggee runs fail with
\* NotRunning and change nothing but the record of the last command; no
\* command issued then, sxe included, changes context.enable, starts a
\* tracer loop or writes a register.
C3_GuardedCommandsFailNotRunning ==
    [][~alive =>
        /\ flag' = flag
        /\ tr' = tr
        /\ regs' = regs
        /\ convars' = convars
        /\ alive' = alive
        /\ last'.cmd \in Tracers \cup {"r"} =>
                /\ last'.result = "NotRunning"
                /\ breakpoints' = breakpoints
                /\ gdbBps' = gdbBps]_vars

\* C3 witness: tc was refused for want of a debuggee while a Watch Entry
\* registered without one is in the collection.
C3_Witness ==
    /\ ~alive
    /\ last.cmd = "tc"
    /\ last.result = "NotRunning"
    /\ Len(breakpoints) > 0
    /\ ~flag

\* the explicit budget of a tracer command line, -1 when it has none
Budget(argv) ==
    IF Len(argv) = 0 \/ ~int10(argv[1]).ok THEN 0 - 1 ELSE int10(argv[1]).n

\* tc 5 / tc 3 started at the first of 5 plain instructions that a call
\* follows, and ended
StraightLine(cmd, n) ==
    /\ TraceEnded
    /\ last.cmd = cmd
    /\ last.argv = <<Dec(n)>>
    /\ prog = Program(5, "call")
    /\ last.from = 1

\* C4 as stated: tc 5 at the first of 5 plain instructions followed by a
\* call stops after the 6th step, the call being the instruction executed
\* last (the debuggee stands at the first instruction of the callee).
C4_StopsAfterSixthStep ==
    StraightLine("tc", 5) =>
        /\ last.steps = 6
        /\ pc = CalleeEntry(prog)

\* C4, amended: tc 5 at the first of 5 plain instructions followed by a
\* call stops after the 5th step with the call at the program counter, not
\* yet executed.
C4_StopsAtCallAfterFifthStep ==
    StraightLine("tc", 5) =>
        /\ last.result = "ok"
        /\ last.steps = 5
        /\ last.sawCall
        /\ pc = 6
        /\ prog[pc] = "call"
        /\ stack = <<>>

\* C4 witness: such a tc 5 has ended.
C4_Witness == StraightLine("tc", 5) /\ last.steps = 5

\* C5: with an explicit budget N >= 0 the tracer never issues more than N
\* steps; it issues exactly N when it returns without having seen a call
\* at the program counter (N = 0: none); tc 3 / pc 3 at the first of 5
\* plain instructions takes exactly 3 steps and finds no call.
C5_BudgetBoundsSteps ==
    /\ (tr.pos # "idle" /\ Budget(tr.argv) >= 0) =>
            /\ tr.steps <= Budget(tr.argv)
            /\ tr.steps + tr.cnt + (IF tr.pos = "step" THEN 1 ELSE 0)
                    = Budget(tr.argv)
            /\ tr.cnt >= 0
    /\ (TraceEnded /\ Budget(last.argv) >= 0) =>
            /\ last.steps <= Budget(last.argv)
            /\ (last.result = "ok" /\ ~last.sawCall) =>
                    last.steps = Budget(last.argv)
    /\ \A cmd \in Tracers :
            StraightLine(cmd, 3) =>
                /\ last.steps = 3
                /\ ~last.sawCall
                /\ last.result = "ok"
                /\ pc = 4

\* C5 witness: pc 3 at the first of 5 plain instructions used its whole
\* budget.
C5_Witness == StraightLine("pc", 3) /\ last.steps = 3 /\ ~last.sawCall

\* C5 witness for the empty budget: tc 0 returned without a step.
C5_WitnessZero ==
    TraceEnded /\ last.argv = <<"0">> /\ last.steps = 0 /\ last.result = "ok"

\* the entries gdb asked at the last dlopen hit
Evaluated == { id \in DOMAIN hit.dec : hit.dec[id] # "none" }

\* m is a suffix of s: s is some text followed by m
IsSuffix(m, s) == \E k \in 0..Len(s) : SubSeq(s, k + 1, Len(s)) = m

\* the last dlopen hit passed a non-zero pointer to the readable string s
HitWithPath(s) ==
    /\ hit.seen
    /\ hit.ptr # 0
    /\ read_cstring_from_memory(hit.ptr).ok
    /\ read_cstring_from_memory(hit.ptr).s = s

\* the paths of the debuggee's memory
Paths == { read_cstring_from_memory(a).s : a \in StringStarts \cup {MemBase + 9} }

\* C6: at a dlopen hit whose first argument points to a readable string s,
\* an entry's stop() returns True exactly when s ends with the entry's
\* module name, compared character by character: the entry for libfoo.so
\* stops on /usr/lib/libfoo.so and not on /usr/lib/libfoobar.so,
\* /usr/lib/libbar.so or /opt/LIBFOO.SO.
C6_StopIffSuffix ==
    /\ \A s \in Paths : \A id \in Evaluated :
            HitWithPath(s) =>
                /\ hit.dec[id] \in {"True", "False"}
                /\ hit.dec[id] = "True" <=> IsSuffix(gdbBps[id].module_name, s)
    /\ \A id \in Evaluated :
            gdbBps[id].module_name = "libfoo.so" =>
                /\ HitWithPath("/usr/lib/libfoo.so") => hit.dec[id] = "True"
                /\ HitWithPath("/usr/lib/libfoobar.so") => hit.dec[id] = "False"
                /\ HitWithPath("/usr/lib/libbar.so") => hit.dec[id] = "False"
                /\ HitWithPath("/opt/LIBFOO.SO") => hit.dec[id] = "False"

\* C6 witness: the entry for libfoo.so was asked about /usr/lib/libfoo.so
\* and said stop, and the debuggee is stopped.
C6_Witness ==
    /\ HitWithPath("/usr/lib/libfoo.so")
    /\ \E id \in Evaluated :
            gdbBps[id].module_name = "libfoo.so" /\ hit.dec[id] = "True"
    /\ alive

\* C7: at a dlopen hit whose first argument is zero or names no mapped
\* memory, every entry's stop() returns False and raises nothing.
C7_BadPointerNeverStops ==
    (hit.seen /\ (hit.ptr = 0 \/ ~Mapped(hit.ptr))) =>
        \A id \in Evaluated : hit.dec[id] = "False"

\* the name and value text of an r command line that assigns, <<>> for
\* any other
AssignOf(argv) ==
    LET combined == Combined(argv) IN
    IF Len(argv) >= 1 /\ Contains(combined, "=") /\ Len(Split(combined, "=")) = 2
    THEN Split(combined, "=")
    ELSE <<>>

\* the names of an r command line that lists registers, <<>> for any other
ListOf(argv) ==
    IF Len(argv) >= 1 /\ ~Contains(Combined(argv), "=")
    THEN Split(Combined(argv), ",")
    ELSE <<>>

\* the printed lines as one line
RECURSIVE Flatten(_)
Flatten(lines) ==
    IF Len(lines) = 0 THEN ""
    ELSE IF Len(lines) = 1 THEN lines[1]
    ELSE lines[1] \o " " \o Flatten(Tail(lines))

\* C8: r with a list of names of the Register Set prints one entry per
\* name, in the order given, a repeated name as often as it was given.
C8_ExplicitListPrinted ==
    (/\ last.cmd = "r"
     /\ last.wasAlive
     /\ ListOf(last.argv) # <<>>
     /\ Range(ListOf(last.argv)) \subseteq RegisterSet(arch))
    => /\ last.result = "ok"
       /\ Flatten(last.out) = PrintLine(ListOf(last.argv))

\* C9: r NAME=HEX with NAME outside the Register Set is rejected and
\* writes nothing: no register changes and gdb holds no variable NAME.
C9_UnknownRegisterRejected ==
    (/\ last.cmd = "r"
     /\ last.wasAlive
     /\ AssignOf(last.argv) # <<>>
     /\ AssignOf(last.argv)[1] \notin RegisterSet(arch))
    => /\ last.result # "ok"
       /\ \A cv \in convars : cv[1] # AssignOf(last.argv)[1]

\* r NAME=HEX wrote a register of the Register Set
OkWrite(l) ==
    /\ l.cmd = "r"
    /\ l.wasAlive
    /\ l.result = "ok"
    /\ AssignOf(l.argv) # <<>>
    /\ AssignOf(l.argv)[1] \in RegisterSet(arch)

\* r printed every register
OkDump(l) == l.cmd = "r" /\ l.wasAlive /\ l.result = "ok" /\ l.argv = <<>>

\* the position of a register in the architecture's list
PositionOf(name) == CHOOSE i \in 1..Len(Gprs(arch)) : Gprs(arch)[i] = name

\* the 20 characters of the i-th entry of a dump, NAME=16 digits; "" when
\* the dump has no such columns
EntryOf(out, i) ==
    LET n == PerLine(arch)
        k == (i - 1) % n
        row == ((i - 1) \div n) + 1
    IN  IF row > Len(out) \/ Len(out[row]) < k * 21 + 20 THEN ""
        ELSE SubSeq(out[row], k * 21 + 1, k * 21 + 20)

\* the dump shows for the register written just before it the number the
\* command line gave
ReadsBack(write, dump) ==
    LET name == AssignOf(write.argv)[1]
        entry == EntryOf(dump.out, PositionOf(name))
    IN  /\ Len(entry) = 20
        /\ SubSeq(entry, 1, 4) = RJust3(name) \o "="
        /\ int16(SubSeq(entry, 5, 20)) = int16(AssignOf(write.argv)[2])

\* r NAME printed the one entry NAME=16 digits, and the digits are the
\* number the command line of the write gave
ReadsBackOne(write, read) ==
    LET name == AssignOf(write.argv)[1] IN
    /\ read.result = "ok"
    /\ Len(read.out) = 1
    /\ Len(read.out[1]) = 20
    /\ SubSeq(read.out[1], 1, 4) = RJust3(name) \o "="
    /\ int16(SubSeq(read.out[1], 5, 20)) = int16(AssignOf(write.argv)[2])

\* C10: for every register of the Register Set and every value r NAME=HEX
\* accepts, the write followed by a read of the same register, r NAME or
\* the dump of all registers, returns exactly the written value.
C10_WriteThenReadReturnsValue ==
    [][\A name \in RegisterSet(arch) :
        (OkWrite(last) /\ AssignOf(last.argv)[1] = name /\ last'.cmd = "r") =>
            /\ last'.argv = <<name>> => ReadsBackOne(last, last')
            /\ OkDump(last') => ReadsBack(last, last')]_vars

\* the number of '=' in a text
EqualSigns(s) == Cardinality({ i \in 1..Len(s) : Char(s, i) = "=" })

\* a text of hexadecimal digits only
PlainHex(s) ==
    /\ Len(s) > 0
    /\ \A i \in 1..Len(s) :
            Contains("0123456789abcdefABCDEF", Char(s, i))

\* the text after the '=' of a command line with exactly one
RightOf(s) == SubSeq(s, IndexOf(s, "=") + 1, Len(s))

\* C11: r with an argument text (spaces and '@' removed) that holds one
\* '=' and hexadecimal digits after it is parsed, never a ValueError:
\* rax=1f writes 0x1f to rax, "@rax", "= ffffffffffffffff" writes
\* 0xffffffffffffffff, rax=1_f and rax=1f between a vertical tab and a
\* next-line character write 0x1f as int() reads them; a text
\* with more than one '=' (rax==1) or with a right-hand side that is no
\* number (rax=zz) fails with ValueError;
\* a failing command writes no register and no gdb variable.
C11_AssignmentParsed ==
    [][\A text \in { Combined(argv) : argv \in RArgvs(arch) } :
       (alive /\ last'.cmd = "r" /\ Combined(last'.argv) = text
            /\ EqualSigns(text) >= 1) =>
        /\ EqualSigns(text) > 1 => last'.result = "ValueError"
        /\ (EqualSigns(text) = 1 /\ RightOf(text) = "zz") =>
                last'.result = "ValueError"
        /\ (EqualSigns(text) = 1 /\ PlainHex(RightOf(text))) =>
                last'.result \in {"ok", "gdb.error"}
        /\ text = RReg(arch) \o "=1f" =>
                /\ last'.result = "ok"
                /\ regs' = [regs EXCEPT ![RReg(arch)] = FromInt(31)]
        /\ text = RReg(arch) \o "=1_f" =>
                /\ last'.result = "ok"
                /\ regs' = [regs EXCEPT ![RReg(arch)] = FromInt(31)]
        /\ text = RReg(arch) \o "=" \o VT \o "1f" \o NEL =>
                /\ last'.result = "ok"
                /\ regs' = [regs EXCEPT ![RReg(arch)] = FromInt(31)]
        /\ text = RReg(arch) \o "=ffffffffffffffff" =>
                /\ last'.result = "ok"
                /\ regs' = [regs EXCEPT ![RReg(arch)] = [i \in 1..16 |-> 15]]
        /\ last'.result # "ok" => (regs' = regs /\ convars' = convars)]_vars

\* C11 witness: r rax==1 failed and left the 0x1f written before it.
C11_Witness ==
    /\ arch = X86
    /\ last.cmd = "r"
    /\ last.wasAlive
    /\ last.argv = <<"rax==1">>
    /\ last.result = "ValueError"
    /\ regs["rax"] = FromInt(31)

\* a text of n lower-case hexadecimal digits
IsHexText(s, n) ==
    /\ Len(s) = n
    /\ \A i \in 1..n : Contains("0123456789abcdef", Char(s, i))

\* C12: r without arguments prints ceil(|Register Set| / perLine) lines,
\* 3 registers a line for x86-64 (6 lines) and 4 for aarch64 (9 lines);
\* every line but the last holds perLine entries; the i-th entry is the
\* i-th register of the list with its value as 16 hexadecimal digits.
C12_DumpLayout ==
    OkDump(last) =>
        LET n == PerLine(arch)
            total == Len(Gprs(arch))
            rest == total % n
        IN  /\ arch = X86 => (n = 3 /\ Len(last.out) = 6)
            /\ arch = ARM => (n = 4 /\ Len(last.out) = 9)
            /\ Len(last.out) = (total + n - 1) \div n
            /\ \A k \in 1..Len(last.out) :
                    Len(last.out[k]) =
                        IF k < Len(last.out) \/ rest = 0 THEN n * 21 - 1
                        ELSE rest * 21 - 1
            /\ \A i \in 1..total :
                    LET entry == EntryOf(last.out, i) IN
                    /\ Len(entry) = 20
                    /\ SubSeq(entry, 1, 4) = RJust3(Gprs(arch)[i]) \o "="
                    /\ IsHexText(SubSeq(entry, 5, 20), 16)
                    /\ int16(SubSeq(entry, 5, 20)).mag
                            = StripZeros(regs[Gprs(arch)[i]])

\* C12 witness: the 9-line dump of an aarch64 debuggee whose x0 was
\* written.
C12_Witness ==
    /\ OkDump(last)
    /\ arch = ARM
    /\ Len(last.out) = 9
    /\ regs["x0"] = FromInt(31)

\* the breakpoints of table g that gdb still has and that are enabled
Armed(g) == { id \in DOMAIN g : g[id].valid /\ g[id].enabled }

\* the armed breakpoints of table g for module m
ArmedNamed(g, m) == { id \in Armed(g) : g[id].module_name = m }

\* C13: sxe ud:m for a module m that no sxe ld:m ever named changes
\* nothing: the collection and every breakpoint (enabled, deleted or not)
\* are as before, and the command ends without an error.
C13_UnwatchUnknownIsNoOp ==
    [][\A m \in SxeModules :
        (/\ last'.cmd = "sxe"
         /\ IsUnwatch(last'.argv, m)
         /\ \A id \in DOMAIN gdbBps : gdbBps[id].module_name # m)
        => /\ breakpoints' = breakpoints
           /\ gdbBps' = gdbBps
           /\ last'.result = "ok"
           /\ last'.bp = 0]_vars

\* C13 witness: sxe ud:libbar.so ended without an error while the only
\* entries are for libfoo.so, one of them armed.
C13_Witness ==
    /\ last.cmd = "sxe"
    /\ IsUnwatch(last.argv, "libbar.so")
    /\ last.result = "ok"
    /\ last.bp = 0
    /\ Len(breakpoints) > 0
    /\ \A id \in DOMAIN gdbBps : gdbBps[id].module_name = "libfoo.so"
    /\ ArmedNamed(gdbBps, "libfoo.so") # {}

\* the readable path a pointer names, "" when it names none
PathAt(p) ==
    IF p # 0 /\ read_cstring_from_memory(p).ok
    THEN read_cstring_from_memory(p).s
    ELSE ""

\* C19: a dlopen hit with a readable path stops the debuggee exactly when
\* the path ends with the module name of some armed entry, each entry
\* answering for its own name; sxe ud:m leaves every breakpoint of another
\* name as it was, so a later hit for that other name still stops and a
\* hit for m alone no longer does.
C19_EntriesIndependent ==
    [][/\ (tr.pos = "idle" /\ last'.cmd = "g") =>
            \A s \in Paths :
                PathAt(hit'.ptr) = s =>
                    /\ alive' <=> \E id \in Armed(gdbBps) :
                            IsSuffix(gdbBps[id].module_name, s)
                    /\ \A id \in Armed(gdbBps) :
                            hit'.dec[id] = "True" <=>
                                IsSuffix(gdbBps[id].module_name, s)
       /\ \A m \in SxeModules :
            (last'.cmd = "sxe" /\ IsUnwatch(last'.argv, m)) =>
                /\ \A id \in DOMAIN gdbBps :
                        gdbBps[id].module_name # m => gdbBps'[id] = gdbBps[id]
                /\ \A n \in SxeModules \ {m} :
                        ArmedNamed(gdbBps', n) = ArmedNamed(gdbBps, n)]_vars

\* C19 witness: with the entry for libfoo.so deleted and the entry for
\* libbar.so armed, a hit with /usr/lib/libbar.so stopped the debuggee, the
\* deleted entry not being asked.
C19_Witness ==
    /\ last.cmd = "g"
    /\ alive
    /\ HitWithPath("/usr/lib/libbar.so")
    /\ \E i, j \in DOMAIN gdbBps :
            /\ gdbBps[i].module_name = "libfoo.so"
            /\ ~gdbBps[i].valid
            /\ hit.dec[i] = "none"
            /\ gdbBps[j].module_name = "libbar.so"
            /\ j \in Armed(gdbBps)
            /\ hit.dec[j] = "True"

\* C19 witness of the other half: with the same entries a hit with
\* /usr/lib/libfoo.so did not stop the debuggee.
C19_WitnessNoStop ==
    /\ last.cmd = "g"
    /\ ~alive
    /\ HitWithPath("/usr/lib/libfoo.so")
    /\ \E i, j \in DOMAIN gdbBps :
            /\ gdbBps[i].module_name = "libfoo.so"
            /\ ~gdbBps[i].valid
            /\ gdbBps[j].module_name = "libbar.so"
            /\ j \in Armed(gdbBps)
            /\ hit.dec[j] = "False"

\* C20: every sxe ud:m issued while an entry named m is armed ends without
\* an error and disarms exactly one of them, so that k sxe ld:m followed
\* by k sxe ud:m leave no entry named m armed.
C20_UnwatchDisablesOneArmed ==
    [][\A m \in SxeModules :
        (/\ last'.cmd = "sxe"
         /\ IsUnwatch(last'.argv, m)
         /\ ArmedNamed(gdbBps, m) # {})
        => /\ last'.result = "ok"
           /\ Cardinality(ArmedNamed(gdbBps', m))
                = Cardinality(ArmedNamed(gdbBps, m)) - 1]_vars

\* the budget a running tracer invocation started with was given as a
\* count
Counted(t) == Len(t.argv) = 1 /\ int10(t.argv[1]).ok

\* C14: while tc / pc runs, the remaining budget is at least 0 and at most
\* the initial budget, and together with the steps taken it makes up the
\* initial budget, for every count int() accepts and for the default, on a
\* debuggee that loops without a call; so the loop ends when the initial
\* budget is used up.
C14_BudgetStaysInRange ==
    tr.pos # "idle" =>
        LET spent == tr.steps + (IF tr.pos = "step" THEN 1 ELSE 0) IN
        IF tr.big
        THEN tr.cnt = 0 - spent
        ELSE /\ Counted(tr)
             /\ tr.cnt >= 0
             /\ tr.cnt <= int10(tr.argv[1]).n
             /\ tr.cnt = int10(tr.argv[1]).n - spent

\* C15: tc / pc issued while no debuggee runs ends with the not-running
\* warning before anything else: no step is issued, context.enable is
\* neither switched off nor on and keeps its value, the loop is not
\* entered and the debuggee stays as it is.
C15_RefusedBeforeToggle ==
    [][(~alive /\ tr.pos = "idle") =>
        /\ flag' = flag
        /\ tr' = tr
        /\ last'.cmd \in Tracers =>
                /\ last'.result = "NotRunning"
                /\ last'.steps = 0
                /\ last'.offs = 0
                /\ last'.ons = 0
                /\ alive' = alive
                /\ pc' = pc
                /\ stack' = stack]_vars

\* C15 witness: pc was refused for want of a debuggee; context.enable was
\* off before and is off.
C15_Witness ==
    /\ ~alive
    /\ tr.pos = "idle"
    /\ last.cmd = "pc"
    /\ last.result = "NotRunning"
    /\ last.steps = 0
    /\ ~last.prior
    /\ ~flag

\* a tracer invocation that returned did not use its whole budget
LeftOver(l) ==
    \/ Len(l.argv) = 0
    \/ int10(l.argv[1]).ok /\ int10(l.argv[1]).n # l.steps

\* C16: while the loop of tc / pc goes on, no instruction it looked at
\* after a step was a call; when the loop has ended with budget left over,
\* the instruction at the program counter is a call, seen after the last
\* step.
C16_StopsAtCall ==
    /\ tr.pos \in {"test", "body", "step", "classify"} => ~tr.sawCall
    /\ (tr.pos \in {"restore", "context"} /\ (tr.big \/ tr.cnt # 0)) =>
            /\ tr.sawCall
            /\ alive
            /\ is_call(prog, pc)
    /\ (TraceEnded /\ last.result = "ok" /\ LeftOver(last)) =>
            /\ last.sawCall
            /\ alive
            /\ prog[pc] = "call"

\* C16 witness: pc 5 returned after 2 steps with a call at the program
\* counter.
C16_Witness ==
    /\ TraceEnded
    /\ last.cmd = "pc"
    /\ last.argv = <<"5">>
    /\ last.result = "ok"
    /\ last.steps = 2
    /\ last.sawCall
    /\ prog[pc] = "call"

\* C17: when tc / pc has returned normally, context.enable has the value
\* it had when the command was issued.
C17_FlagAsBefore ==
    (TraceEnded /\ last.result = "ok") => flag = last.prior

\* C18: context.enable is off whenever tc / pc issues stepi / nexti, and
\* on whenever it issues the context report; a command that returned
\* switched it on once.
C18_SilentWhileStepping ==
    /\ tr.pos = "step" => ~flag
    /\ tr.pos = "context" => (flag /\ tr.ons = 1)
    /\ (TraceEnded /\ last.result = "ok") => last.ons = 1

\* C18 witness: a tracer that found context.enable on is about to step
\* with it off.
C18_Witness ==
    /\ tr.pos = "step"
    /\ tr.prior
    /\ ~flag
    /\ tr.steps > 0

\* C18 witness for the report: a tracer that stepped is about to print the
\* context with context.enable on.
C18_WitnessContext ==
    /\ tr.pos = "context"
    /\ flag
    /\ tr.offs > 0

====
